---- MODULE Spec2Model ----
(***************************************************************************)
(* The Travel Offer Resolver of AITravelAssistant                          *)
(* (src/flight_hotel_finder.py, class FlightHotelFinderAgent): the cached   *)
(* OAuth token, the destination-code lookup, the flight and the hotel       *)
(* searches and their fallback to synthetic offers.                         *)
(*                                                                         *)
(* One Resolver instance runs one operation at a time (single-threaded,     *)
(* blocking I/O).  An action is the code between two points where the       *)
(* operation waits for the network, together with the answer the upstream   *)
(* gives; the wall clock advances between actions.  Times are in seconds.   *)
(***************************************************************************)
EXTENDS Integers, Sequences, FiniteSets

\* ---------------------------------------------------------------- bounds

\* The wall clock advances TickLen seconds at a time, at most MaxTicks times.
TickLen == 30
MaxTicks == 3
\* The upstream issues at most MaxTokens tokens in a run.
MaxTokens == 2
\* The longest hotel listing the upstream returns.
MaxHotels == 4
\* The longest stay, in nights, of the parsing specification.
MaxStay == 3
\* The last day the date widgets offer; the first is day 1.
MaxDay == 3

\* ------------------------------------------------------ program constants

\* timedelta(seconds=token_data["expires_in"] - 60)
Margin == 60
\* data.get("data", [])[:3], hotels_data["data"][:3]
FlightCap == 3
HotelCap == 3
\* "max": 5 of the flight-offers request
MaxRaw == 5
\* for i in range(3) of the two mock generators
MockCount == 3

\* self.access_token = None, self.token_expiry = None
NoToken == 0
NoExpiry == -100000

\* expires_in values the auth endpoint answers with
TTLs == {30, 90}

\* num_travelers and (check_out_date - check_in_date).days the caller passes
Travelers == {1, 2}
Nights == {0, 3}

\* ------------------------------------------------------------ exceptions

\* The exception classes the modelled code can meet; all derive from Exception.
ExceptionClasses ==
    {"ConnectionError", "HTTPError", "ValueError", "KeyError", "IndexError",
     "TypeError", "ZeroDivisionError"}

\* A handler for the errors of the requests library only.
TokenCatchBroken(e) == e \in {"ConnectionError", "HTTPError"}
\* `except Exception` of _get_amadeus_token
TokenCatch(e) == e \in ExceptionClasses

\* `except Exception` of _get_iata_code
IataCatch(e) == e \in ExceptionClasses

\* `except (KeyError, IndexError)` around one flight offer
FlightOfferCatch(e) == e \in {"KeyError", "IndexError"}

\* `except Exception` around the flight request and its batch
FlightCatch(e) == e \in ExceptionClasses

\* A handler around one hotel identifier that lets arithmetic errors through.
HotelOfferCatchNoArithmetic(e) == e \in ExceptionClasses \ {"ZeroDivisionError"}
\* `except Exception` around one hotel identifier
HotelOfferCatch(e) == e \in ExceptionClasses

\* A handler for the errors of the requests library only.
HotelCatchBroken(e) == e \in {"ConnectionError", "HTTPError"}
\* `except Exception` around the hotel listing and its batch
HotelCatch(e) == e \in ExceptionClasses

\* What requests.get/post, raise_for_status and response.json() raise for an
\* answer of kind k: nothing for a JSON body.
TransportRaises(k) ==
    CASE k = "transport" -> "ConnectionError"
      [] k = "http" -> "HTTPError"
      [] k = "badjson" -> "ValueError"
      [] OTHER -> "none"

TransportFailures == {"transport", "http", "badjson"}

\* ------------------------------------------------------------- variables

VARIABLES
    clock,         \* datetime.now(), seconds
    ticks,         \* how often the clock advanced
    access_token,  \* self.access_token
    token_expiry,  \* self.token_expiry
    stated_expiry, \* time of exchange + expires_in of the cached token (the
                   \* upstream's own expiry; NoExpiry when it stated none)
    issued,        \* tokens the upstream has issued so far
    op,            \* the operation running, or the last one that returned
    pc,            \* where the running operation waits
    arg,           \* num_travelers (flights) or the stay's nights (hotels)
    token,         \* the operation's local `token`
    hotel_ids,     \* the operation's local hotel_ids
    hotel_options, \* the operation's local hotel_options
    acq,           \* the _get_amadeus_token call made in the last step, if any
    calls,         \* the requests the running/last operation issued, in order
    resp,          \* the upstream's answers the last operation parsed
    result,        \* what the last operation returned
    raised,        \* whether the last operation raised to its caller
    form,          \* the sidebar widgets of main.py
    session,       \* st.session_state
    run,           \* where the current run of the script stands
    event,         \* what started the current run of the script
    invoked        \* the get_flight_options/get_hotel_options calls of main

cache == <<access_token, token_expiry, stated_expiry, issued>>
agent == <<clock, ticks, access_token, token_expiry, stated_expiry, issued, op,
           pc, arg, token, hotel_ids, hotel_options, acq, calls, resp, result,
           raised>>
ui == <<form, session, run, event, invoked>>
vars == <<clock, ticks, access_token, token_expiry, stated_expiry, issued, op,
          pc, arg, token, hotel_ids, hotel_options, acq, calls, resp, result,
          raised, form, session, run, event, invoked>>

\* ----------------------------------------------------------- token manager

\* Answers of the auth endpoint: a failure of the transport, a body without
\* access_token, a body with access_token but without a usable expires_in,
\* or a full body.
ExchangeOutcomes ==
    [k : TransportFailures \cup {"no_token", "bad_ttl"}, ttl : {0}]
        \cup [k : {"ok"}, ttl : TTLs]

\* The exception lines 46-52 raise for answer x.
ExchangeRaises(x) ==
    CASE x.k \in TransportFailures -> TransportRaises(x.k)
      [] x.k = "no_token" -> "KeyError"
      [] x.k = "bad_ttl" -> "KeyError"
      [] OTHER -> "none"

\* Line 50 ran: the body held an access_token.
TokenAssigned(x) == x.k \in {"ok", "bad_ttl"}

\* The cache test with the margin, already taken off token_expiry, taken off
\* once more.
TokenValidDoubleMargin ==
    /\ access_token # NoToken
    /\ token_expiry # NoExpiry
    /\ clock + Margin < token_expiry
\* The cache test with <= for <.
TokenValidInclusive ==
    /\ access_token # NoToken
    /\ token_expiry # NoExpiry
    /\ clock <= token_expiry
\* now < self.token_expiry, with the two truthiness tests before it
TokenValid ==
    /\ access_token # NoToken
    /\ token_expiry # NoExpiry
    /\ clock < token_expiry

\* now + timedelta(seconds=token_data["expires_in"] - 60)
NewExpiry(ttl) == clock + ttl - Margin

NoAcq == [called |-> FALSE, exch |-> 0, x |-> "none", ttl |-> 0,
          ret |-> NoToken, raised |-> FALSE]

\* _get_amadeus_token with the auth endpoint answering x (asked only when the
\* cache does not serve the call).
GetAmadeusToken(x) ==
    IF TokenValid
    THEN /\ UNCHANGED cache
         /\ acq' = [called |-> TRUE, exch |-> 0, x |-> "hit", ttl |-> 0,
                    ret |-> access_token, raised |-> FALSE]
    ELSE LET e == ExchangeRaises(x) IN
         /\ TokenAssigned(x) => issued < MaxTokens
         /\ issued' = IF TokenAssigned(x) THEN issued + 1 ELSE issued
         /\ access_token' = IF TokenAssigned(x) THEN issued + 1 ELSE access_token
         /\ token_expiry' = IF x.k = "ok" THEN NewExpiry(x.ttl) ELSE token_expiry
         /\ stated_expiry' = IF x.k = "ok" THEN clock + x.ttl
                             ELSE IF TokenAssigned(x) THEN NoExpiry
                             ELSE stated_expiry
         /\ acq' = [called |-> TRUE, exch |-> 1, x |-> x.k, ttl |-> x.ttl,
                    ret |-> IF e = "none" THEN issued + 1 ELSE NoToken,
                    raised |-> e # "none" /\ ~TokenCatch(e)]

\* The token exchange a call of _get_amadeus_token put on the wire.
ExchCalls(a) ==
    IF a.exch = 1 THEN <<[req |-> "token", tok |-> NoToken, id |-> 0]>> ELSE <<>>

\* ---------------------------------------------------- location resolver

NoCode == "none"

\* Answers of the city search: a failure of the transport, a body with no or
\* an empty "data" list, a first element without "iataCode", or a code.
CityOutcomes == TransportFailures \cup {"empty", "no_code", "ok"}

\* The exception lines 101-106 raise for answer c.
CityRaises(c) ==
    CASE c \in TransportFailures -> TransportRaises(c)
      [] c = "no_code" -> "KeyError"
      [] OTHER -> "none"

\* A resolver that forgets lines 89-91 and asks without a token.
IataAsksEvenWithoutToken(a) == ~a.raised
\* Whether _get_iata_code, after the acquisition a, sends the city search.
IataAsks(a) == ~a.raised /\ a.ret # NoToken

\* What _get_iata_code returns after the acquisition a and the answer c.
IataCode(a, c) ==
    IF ~IataAsks(a) THEN NoCode
    ELSE IF c = "ok" THEN "PAR"
    ELSE NoCode

\* Whether _get_iata_code raises: line 88 is outside its try block.
IataRaised(a, c) ==
    \/ a.raised
    \/ IataAsks(a) /\ CityRaises(c) # "none" /\ ~IataCatch(CityRaises(c))

\* The requests of one _get_iata_code call.
IataCalls(a) ==
    ExchCalls(a) \o
    (IF IataAsks(a) THEN <<[req |-> "city", tok |-> a.ret, id |-> 0]>> ELSE <<>>)

\* ------------------------------------------------------- small helpers

Min(a, b) == IF a < b THEN a ELSE b

\* s[:n]
FirstN(s, n) == SubSeq(s, 1, Min(n, Len(s)))

\* A rounding that cuts the fraction, as int() does.
RoundDivTruncates(c, d) == c \div d
\* Python's round() of c/d for c >= 0, d > 0: to the nearest integer, a tie to
\* the even one.
RoundDiv(c, d) ==
    LET q == c \div d
        r == c % d
    IN  IF 2 * r < d THEN q
        ELSE IF 2 * r > d THEN q + 1
        ELSE IF q % 2 = 0 THEN q ELSE q + 1

\* All sequences over S of length 0..n.
SeqsUpTo(S, n) == UNION {[1..k -> S] : k \in 0..n}

\* ------------------------------------------------- synthetic fallback

\* An offer whose arrival hour is not taken modulo 24.
MockFlightOfferNoWrap(d, n) ==
    [src |-> "mock", airline |-> d.airline, departure_time |-> d.dep,
     arrival_time |-> d.dep + d.dur, duration |-> d.dur,
     stops |-> d.stops, price |-> d.p * n]
\* One offer of _get_mock_flight_options from its random draws.  `src` marks
\* where an offer comes from; the program's dictionaries do not carry it.
MockFlightOffer(d, n) ==
    [src |-> "mock", airline |-> d.airline, departure_time |-> d.dep,
     arrival_time |-> (d.dep + d.dur) % 24, duration |-> d.dur,
     stops |-> d.stops, price |-> d.p * n]

\* The draws random.choice/randint allow.
MockFlightDraws ==
    [airline : {"Delta", "United", "American", "Southwest", "JetBlue"},
     dep : 6..22, dur : 2..8, stops : 0..2, p : 300..800]

\* The draws this specification follows: the two ends of every range.
FlightDrawSample ==
    {[airline |-> "Delta", dep |-> 6, dur |-> 2, stops |-> 0, p |-> 300],
     [airline |-> "JetBlue", dep |-> 22, dur |-> 8, stops |-> 2, p |-> 800]}

\* _get_mock_flight_options: one draw per offer.
GetMockFlightOptions(ds, n) == [i \in 1..Len(ds) |-> MockFlightOffer(ds[i], n)]

\* One offer of _get_mock_hotel_options; d.r is the rating in tenths.
MockHotelOffer(d, nights) ==
    [src |-> "mock", id |-> 0, name |-> d.name, rating |-> d.r,
     price |-> d.p, total_price |-> d.p * nights, amenities |-> d.am]

\* amenities_options
AmenitiesOptions ==
    {<<"Wi-Fi", "Pool", "Gym", "Restaurant", "Bar">>,
     <<"Wi-Fi", "Breakfast", "Parking", "Room Service">>,
     <<"Wi-Fi", "Spa", "Restaurant", "Conference Room">>,
     <<"Wi-Fi", "Pool", "Breakfast", "Airport Shuttle">>}

MockHotelDraws ==
    [name : {"Grand Hotel", "Plaza", "Inn", "Luxury Suites"},
     r : 30..50, p : 80..300, am : AmenitiesOptions]

HotelDrawSample ==
    {[name |-> "Grand Hotel", r |-> 30, p |-> 80,
      am |-> <<"Wi-Fi", "Pool", "Gym", "Restaurant", "Bar">>],
     [name |-> "Luxury Suites", r |-> 50, p |-> 300,
      am |-> <<"Wi-Fi", "Breakfast", "Parking", "Room Service">>]}

GetMockHotelOptions(ds, nights) ==
    [i \in 1..Len(ds) |-> MockHotelOffer(ds[i], nights)]

\* The draws of one call, MockCount of them: all alike, or alternating.
DrawLists(S) ==
    {ds \in [1..MockCount -> S] :
        \A i \in 1..MockCount - 2 : ds[i] = ds[i + 2] /\ ds[i] # ds[i + 1]}
FlightDrawLists == DrawLists(FlightDrawSample)
HotelDrawLists == DrawLists(HotelDrawSample)

\* ------------------------------------------------------ flight offers

\* Raw offers of the flight-offers search.  An "ok" offer parses; the others
\* fail at the named line: no "price" key, an empty "segments" list, a total
\* that is no number, a "price" that is a string and not an object.
\* Prices are in cents.
RawFlight(shape, carrier, segs, cents) ==
    [shape |-> shape, carrier |-> carrier, dep |-> 9, arr |-> 17, dur |-> 8,
     segs |-> segs, cents |-> cents]
OkA == RawFlight("ok", "AA", 1, 30050)
OkB == RawFlight("ok", "ZZ", 2, 20000)
NoPrice == RawFlight("no_price", "AA", 1, 0)
NoSegments == RawFlight("no_segments", "AA", 0, 10000)
BadPrice == RawFlight("bad_price", "AA", 1, 0)
BadType == RawFlight("bad_type", "AA", 1, 0)
RawFlightOffers == {OkA, OkB, NoPrice, NoSegments, BadPrice, BadType}

\* The exception lines 154-188 raise for the raw offer o.
FlightParseRaises(o) ==
    CASE o.shape = "no_price" -> "KeyError"
      [] o.shape = "no_segments" -> "IndexError"
      [] o.shape = "bad_price" -> "ValueError"
      [] o.shape = "bad_type" -> "TypeError"
      [] OTHER -> "none"

\* airlines.get(carrier_code, carrier_code)
AirlineName(c) ==
    CASE c = "AA" -> "American Airlines"
      [] c = "UA" -> "United Airlines"
      [] c = "DL" -> "Delta Airlines"
      [] c = "LH" -> "Lufthansa"
      [] c = "BA" -> "British Airways"
      [] c = "AF" -> "Air France"
      [] c = "EK" -> "Emirates"
      [] c = "QR" -> "Qatar Airways"
      [] OTHER -> c

\* The dictionary lines 180-187 build from a raw offer that parses.
ParseFlightOffer(o) ==
    [src |-> "api", airline |-> AirlineName(o.carrier),
     departure_time |-> o.dep, arrival_time |-> o.arr, duration |-> o.dur,
     stops |-> o.segs - 1, price |-> RoundDiv(o.cents, 100)]

\* The loop of lines 152-191 over the offers `rest`, `acc` parsed so far: the
\* parsed offers, and the exception that left the loop ("none": it ran out).
RECURSIVE FlightLoop(_, _)
FlightLoop(rest, acc) ==
    IF rest = <<>> THEN [offers |-> acc, exc |-> "none"]
    ELSE LET o == Head(rest)
             e == FlightParseRaises(o)
         IN  IF e = "none"
             THEN FlightLoop(Tail(rest), Append(acc, ParseFlightOffer(o)))
             ELSE IF FlightOfferCatch(e) THEN FlightLoop(Tail(rest), acc)
             ELSE [offers |-> acc, exc |-> e]

\* data.get("data", [])[:3] run through the loop
FlightBatch(raw) == FlightLoop(FirstN(raw, FlightCap), <<>>)

\* The "data" lists the flight-offers search answers with: every list of up
\* to FlightCap offers that parse, lack a price or have a bad one, and some
\* lists with the other shapes and of up to the MaxRaw offers the request
\* asks for.
RawFlightLists ==
    {s \in SeqsUpTo({OkA, NoPrice, BadPrice}, FlightCap) \cup
       {<<OkA, OkB, OkA, OkB, OkA>>, <<OkB, OkA, OkA, OkB, OkB>>,
        <<OkA, OkB>>, <<OkB, OkA>>, <<OkB, NoPrice, OkA>>,
        <<OkB, BadPrice, OkA>>, <<NoPrice, NoSegments, NoPrice, OkA>>,
        <<NoSegments, NoPrice, NoSegments, OkB, OkA>>,
        <<OkA, NoSegments, OkB, OkA>>, <<OkB, BadType, OkA>>, <<BadType, OkA>>,
        <<NoSegments, OkA>>, <<OkB, NoSegments>>} :
     Len(s) <= MaxRaw}

\* Answers of the flight-offers search: a failure of the transport, a body
\* without "data", a body whose "data" is null, or a list of raw offers.
FlightAnswers ==
    [k : TransportFailures \cup {"no_data", "null_data"}, data : {<<>>}]
        \cup [k : {"list"}, data : RawFlightLists]

\* The exception lines 147-152 raise for answer r before the loop starts.
FlightAnswerRaises(r) ==
    CASE r.k \in TransportFailures -> TransportRaises(r.k)
      [] r.k = "null_data" -> "TypeError"
      [] OTHER -> "none"

\* ------------------------------------------------------- hotel offers

\* Answers of the hotels-by-city listing: a failure of the transport, a body
\* with no or an empty "data" list, a listing with an entry among the first
\* HotelCap that has no "hotelId", or a listing of n hotels.  The hotels of a
\* listing are numbered 1..n in listing order.
HotelListAnswers ==
    [k : TransportFailures \cup {"empty", "no_id"}, n : {0}]
        \cup [k : {"list"}, n : 1..MaxHotels]

\* The exception lines 235-244 raise for the listing r.
HotelListRaises(r) ==
    CASE r.k \in TransportFailures -> TransportRaises(r.k)
      [] r.k = "no_id" -> "KeyError"
      [] OTHER -> "none"

\* The identifiers without the [:3].
HotelIdsUncapped(r) == [i \in 1..r.n |-> i]
\* [hotel["hotelId"] for hotel in hotels_data["data"][:3]]
HotelIds(r) == FirstN([i \in 1..r.n |-> i], HotelCap)

\* rating_map and its .get(rating_raw, 3.0), in tenths of a point.
RatingMap(c) ==
    CASE c = "ECONOMY" -> 20
      [] c = "STANDARD" -> 30
      [] c = "SUPERIOR" -> 40
      [] c = "DELUXE" -> 50
      [] OTHER -> 30

\* A conversion that forgets round(rating, 1): it cuts the second decimal.
RatingTruncates(raw) ==
    CASE raw.kind = "absent" -> 30
      [] raw.kind = "num" -> raw.v \div 10
      [] OTHER -> RatingMap(raw.c)
\* hotel_data.get("rating", "3"), float() or rating_map, and round(rating, 1):
\* the rating of the offer in tenths of a point.  A raw rating is absent, a
\* number (v, in hundredths, v >= 0), a category (c), or null; the default
\* "3" of an absent rating is the number 3.
Rating(raw) ==
    CASE raw.kind = "absent" -> 30
      [] raw.kind = "num" -> RoundDiv(raw.v, 10)
      [] OTHER -> RatingMap(raw.c)

\* amenity.replace("_", " ").title() on the amenity tokens of the inputs
AmenityName(a) ==
    CASE a = "SWIMMING_POOL" -> "Swimming Pool"
      [] a = "WIFI" -> "Wifi"
      [] a = "SPA" -> "Spa"
      [] a = "RESTAURANT" -> "Restaurant"
      [] a = "PARKING" -> "Parking"
      [] a = "FITNESS_CENTER" -> "Fitness Center"
      [] OTHER -> a

\* Lines 288-294 and amenities[:5]
Amenities(raw) ==
    IF raw = <<>> THEN <<"Wi-Fi", "Breakfast">>
    ELSE FirstN([i \in 1..Len(raw) |-> AmenityName(raw[i])], 5)

SomeAmenities ==
    <<"SWIMMING_POOL", "WIFI", "SPA", "RESTAURANT", "PARKING", "FITNESS_CENTER">>

\* Answers of the hotel-offers request for one identifier: a failure of the
\* transport, an empty "data" list, a first entry without "hotel", an offer
\* without "price", a hotel whose rating is null, or a hotel with its offer
\* (total in cents).
HotelAnswer(k, name, rating, cents, amenities) ==
    [k |-> k, name |-> name, rating |-> rating, cents |-> cents,
     amenities |-> amenities]
NoRating == [kind |-> "absent", v |-> 0, c |-> ""]
NumRating(v) == [kind |-> "num", v |-> v, c |-> ""]
CatRating(c) == [kind |-> "cat", v |-> 0, c |-> c]
HotelOfferAnswers ==
    {HotelAnswer("transport", "", NoRating, 0, <<>>),
     HotelAnswer("empty", "", NoRating, 0, <<>>),
     HotelAnswer("no_price", "Ritz", NumRating(400), 0, <<>>),
     HotelAnswer("ok", "Ritz", NumRating(400), 30000, SomeAmenities)}

\* The exception lines 261-303 raise for the answer r on a stay of `nights`.
HotelOfferRaises(r, nights) ==
    IF r.k \in TransportFailures THEN TransportRaises(r.k)
    ELSE IF r.k = "empty" THEN "none"
    ELSE IF r.k = "no_hotel" THEN "KeyError"
    ELSE IF r.rating.kind = "null" THEN "TypeError"
    ELSE IF r.k = "no_price" THEN "KeyError"
    ELSE IF nights = 0 THEN "ZeroDivisionError"
    ELSE "none"

\* The dictionary lines 296-303 build for hotel `id` (nights > 0): the name
\* defaults to "<destination> Hotel".
ParseHotelOffer(id, r, nights) ==
    [src |-> "api", id |-> id,
     name |-> IF r.name = "" THEN "Paris Hotel" ELSE r.name,
     rating |-> Rating(r.rating),
     price |-> RoundDiv(r.cents, 100 * nights),
     total_price |-> RoundDiv(r.cents, 100),
     amenities |-> Amenities(r.amenities)]

\* One pass of the loop without its handler: an exception leaves the loop.
HotelStepAbortsOnError(opts, id, r, nights) ==
    LET e == HotelOfferRaises(r, nights) IN
    IF e # "none" THEN [offers |-> opts, exc |-> e]
    ELSE IF r.k = "empty" THEN [offers |-> opts, exc |-> "none"]
    ELSE [offers |-> Append(opts, ParseHotelOffer(id, r, nights)), exc |-> "none"]
\* One pass of the loop of lines 249-309: hotel_options after the answer r
\* for hotel `id`, and the exception that left the loop ("none": it goes on).
HotelStep(opts, id, r, nights) ==
    LET e == HotelOfferRaises(r, nights) IN
    IF e # "none"
    THEN [offers |-> opts, exc |-> IF HotelOfferCatch(e) THEN "none" ELSE e]
    ELSE IF r.k = "empty" THEN [offers |-> opts, exc |-> "none"]
    ELSE [offers |-> Append(opts, ParseHotelOffer(id, r, nights)), exc |-> "none"]

\* ---------------------------------------------------------- results

\* The page after its first load, lines 71-99 and the return of line 132:
\* the widgets at their defaults (no destination, both dates today), no
\* planning started, nothing planned.
NoDay == 0
Today == 1
PageLoaded ==
    /\ form = [destination |-> "", departure_date |-> Today,
               return_date |-> Today]
    /\ session = [planning_started |-> FALSE, destination |-> "",
                  departure_date |-> NoDay, return_date |-> NoDay,
                  itinerary |-> FALSE, flight_options |-> FALSE,
                  hotel_options |-> FALSE, weather_info |-> FALSE]
    /\ run = "done"
    /\ event = "load"
    /\ invoked = <<>>

NoResult == [kind |-> "none", offers |-> <<>>]
NoResp == [city |-> "none", body |-> "none", data |-> <<>>, offers |-> <<>>]

Init ==
    /\ PageLoaded
    /\ clock = 0
    /\ ticks = 0
    /\ access_token = NoToken
    /\ token_expiry = NoExpiry
    /\ stated_expiry = NoExpiry
    /\ issued = 0
    /\ op = "none"
    /\ pc = "idle"
    /\ arg = 0
    /\ token = NoToken
    /\ hotel_ids = <<>>
    /\ hotel_options = <<>>
    /\ acq = NoAcq
    /\ calls = <<>>
    /\ resp = NoResp
    /\ result = NoResult
    /\ raised = FALSE

\* Time passes between two steps of the program.
Tick ==
    /\ UNCHANGED ui
    /\ ticks < MaxTicks
    /\ ticks' = ticks + 1
    /\ clock' = clock + TickLen
    /\ acq' = NoAcq
    /\ UNCHANGED <<cache, op, pc, arg, token, hotel_ids, hotel_options, calls,
                   resp, result, raised>>

\* The operation returns res, or raises (rz), and its locals are gone.
Finish(res, rz) ==
    /\ pc' = "idle"
    /\ result' = res
    /\ raised' = rz
    /\ token' = NoToken
    /\ hotel_ids' = <<>>
    /\ hotel_options' = <<>>

\* return self._get_mock_flight_options(..., num_travelers)
ReturnMockFlights(n) ==
    \E ds \in FlightDrawLists :
        Finish([kind |-> "mock", offers |-> GetMockFlightOptions(ds, n)], FALSE)

\* return self._get_mock_hotel_options(..., check_in_date, check_out_date, ...)
ReturnMockHotels(nights) ==
    \E ds \in HotelDrawLists :
        Finish([kind |-> "mock", offers |-> GetMockHotelOptions(ds, nights)], FALSE)

\* The operation goes on to wait at `next`.
Continue(next) ==
    /\ pc' = next
    /\ result' = NoResult
    /\ raised' = FALSE

\* The operations without their `if not token` test.
FlightsHasTokenAlways(t) == TRUE
HotelsHasTokenAlways(t) == TRUE
\* `if not token` of get_flight_options (line 118) and get_hotel_options
\* (line 208), negated.
FlightsHasToken(t) == t # NoToken
HotelsHasToken(t) == t # NoToken

\* get_flight_options, lines 117-120: the token, or the fallback without it.
GetFlightOptionsStart ==
    /\ UNCHANGED ui
    /\ pc = "idle"
    /\ \E n \in Travelers, x \in ExchangeOutcomes :
        /\ GetAmadeusToken(x)
        /\ arg' = n
        /\ op' = "flights"
        /\ calls' = ExchCalls(acq')
        /\ resp' = NoResp
        /\ IF acq'.raised THEN Finish(NoResult, TRUE)
           ELSE IF ~FlightsHasToken(acq'.ret) THEN ReturnMockFlights(n)
           ELSE /\ Continue("f_iata")
                /\ token' = acq'.ret
                /\ UNCHANGED <<hotel_ids, hotel_options>>
    /\ UNCHANGED <<clock, ticks>>

\* get_flight_options, lines 128-132: the destination code, or the fallback.
GetFlightOptionsIata ==
    /\ UNCHANGED ui
    /\ pc = "f_iata"
    /\ \E x \in ExchangeOutcomes, c \in CityOutcomes :
        /\ GetAmadeusToken(x)
        /\ calls' = calls \o IataCalls(acq')
        /\ resp' = [resp EXCEPT !.city = IF IataAsks(acq') THEN c ELSE "none"]
        /\ IF IataRaised(acq', c) THEN Finish(NoResult, TRUE)
           ELSE IF IataCode(acq', c) = NoCode THEN ReturnMockFlights(arg)
           ELSE /\ Continue("f_search")
                /\ UNCHANGED <<token, hotel_ids, hotel_options>>
    /\ UNCHANGED <<clock, ticks, op, arg>>

\* get_flight_options, lines 134-201: the search, the batch and the result.
GetFlightOptionsSearch ==
    /\ UNCHANGED ui
    /\ pc = "f_search"
    /\ \E r \in FlightAnswers :
        LET e == FlightAnswerRaises(r)
            b == FlightBatch(r.data)
            exc == IF e # "none" THEN e ELSE b.exc
        IN  /\ calls' = Append(calls, [req |-> "flights", tok |-> token, id |-> 0])
            /\ resp' = [resp EXCEPT !.body = r.k, !.data = r.data]
            /\ IF exc # "none"
               THEN IF FlightCatch(exc) THEN ReturnMockFlights(arg)
                    ELSE Finish(NoResult, TRUE)
               ELSE IF b.offers # <<>>
                    THEN Finish([kind |-> "api", offers |-> b.offers], FALSE)
                    ELSE ReturnMockFlights(arg)
    /\ acq' = NoAcq
    /\ UNCHANGED <<clock, ticks, cache, op, arg>>

\* get_hotel_options, lines 207-210.
GetHotelOptionsStart ==
    /\ UNCHANGED ui
    /\ pc = "idle"
    /\ \E n \in Nights, x \in ExchangeOutcomes :
        /\ GetAmadeusToken(x)
        /\ arg' = n
        /\ op' = "hotels"
        /\ calls' = ExchCalls(acq')
        /\ resp' = NoResp
        /\ IF acq'.raised THEN Finish(NoResult, TRUE)
           ELSE IF ~HotelsHasToken(acq'.ret) THEN ReturnMockHotels(n)
           ELSE /\ Continue("h_iata")
                /\ token' = acq'.ret
                /\ UNCHANGED <<hotel_ids, hotel_options>>
    /\ UNCHANGED <<clock, ticks>>

\* get_hotel_options, lines 217-221.
GetHotelOptionsIata ==
    /\ UNCHANGED ui
    /\ pc = "h_iata"
    /\ \E x \in ExchangeOutcomes, c \in CityOutcomes :
        /\ GetAmadeusToken(x)
        /\ calls' = calls \o IataCalls(acq')
        /\ resp' = [resp EXCEPT !.city = IF IataAsks(acq') THEN c ELSE "none"]
        /\ IF IataRaised(acq', c) THEN Finish(NoResult, TRUE)
           ELSE IF IataCode(acq', c) = NoCode THEN ReturnMockHotels(arg)
           ELSE /\ Continue("h_list")
                /\ UNCHANGED <<token, hotel_ids, hotel_options>>
    /\ UNCHANGED <<clock, ticks, op, arg>>

\* get_hotel_options, lines 223-246: the listing and the identifiers.
GetHotelOptionsList ==
    /\ UNCHANGED ui
    /\ pc = "h_list"
    /\ \E r \in HotelListAnswers :
        LET e == HotelListRaises(r) IN
        /\ calls' = Append(calls, [req |-> "hotels", tok |-> token, id |-> 0])
        /\ resp' = [resp EXCEPT !.body = r.k, !.data = HotelIds(r)]
        /\ IF e # "none"
           THEN IF HotelCatch(e) THEN ReturnMockHotels(arg)
                ELSE Finish(NoResult, TRUE)
           ELSE IF r.k = "empty" THEN ReturnMockHotels(arg)
           ELSE /\ Continue("h_offer")
                /\ hotel_ids' = HotelIds(r)
                /\ hotel_options' = <<>>
                /\ UNCHANGED token
    /\ acq' = NoAcq
    /\ UNCHANGED <<clock, ticks, cache, op, arg>>

\* get_hotel_options, lines 249-319: the request for the next identifier, its
\* parse, and after the last identifier the result.
GetHotelOptionsOffer ==
    /\ UNCHANGED ui
    /\ pc = "h_offer"
    /\ \E r \in HotelOfferAnswers :
        LET i == Len(resp.offers) + 1
            id == hotel_ids[i]
            st == HotelStep(hotel_options, id, r, arg)
        IN  /\ calls' = Append(calls, [req |-> "offers", tok |-> token, id |-> id])
            /\ resp' = [resp EXCEPT !.offers = Append(@, r)]
            /\ IF st.exc # "none"
               THEN IF HotelCatch(st.exc) THEN ReturnMockHotels(arg)
                    ELSE Finish(NoResult, TRUE)
               ELSE IF i < Len(hotel_ids)
                    THEN /\ Continue("h_offer")
                         /\ hotel_options' = st.offers
                         /\ UNCHANGED <<token, hotel_ids>>
                    ELSE IF st.offers # <<>>
                         THEN Finish([kind |-> "api", offers |-> st.offers], FALSE)
                         ELSE ReturnMockHotels(arg)
    /\ acq' = NoAcq
    /\ UNCHANGED <<clock, ticks, cache, op, arg>>

Next ==
    \/ Tick
    \/ GetFlightOptionsStart
    \/ GetFlightOptionsIata
    \/ GetFlightOptionsSearch
    \/ GetHotelOptionsStart
    \/ GetHotelOptionsIata
    \/ GetHotelOptionsList
    \/ GetHotelOptionsOffer

Spec == Init /\ [][Next]_vars

\* The reference flow of main.py, lines 139-169: a fresh Resolver, then
\* get_flight_options, then get_hotel_options, once each.
MainFlights == op = "none" /\ GetFlightOptionsStart
MainHotels == op = "flights" /\ GetHotelOptionsStart

NextMain ==
    \/ Tick
    \/ MainFlights
    \/ GetFlightOptionsIata
    \/ GetFlightOptionsSearch
    \/ MainHotels
    \/ GetHotelOptionsIata
    \/ GetHotelOptionsList
    \/ GetHotelOptionsOffer

SpecMain == Init /\ [][NextMain]_vars

\* ------------------------------------------- one hotel offer, parsed

\* The ratings, totals (in cents) and amenity lists of the answers below:
\* every branch of the rating conversion, a rating with two decimals, one
\* above five points, totals that a stay divides and totals it does not.
RawRatings ==
    {NoRating, [kind |-> "null", v |-> 0, c |-> ""],
     NumRating(0), NumRating(400), NumRating(425), NumRating(456),
     NumRating(700),
     CatRating("ECONOMY"), CatRating("STANDARD"), CatRating("SUPERIOR"),
     CatRating("DELUXE"), CatRating("LUXURY")}
RawTotals == {99, 10050, 10075, 25000, 30000}
RawAmenityLists == {<<>>, <<"WIFI", "SPA">>, SomeAmenities}

\* The answers of the hotel-offers request that carry a hotel and a price.
PricedAnswers ==
    {HotelAnswer("ok", "Ritz", rt, c, am) :
        rt \in RawRatings, c \in RawTotals, am \in RawAmenityLists}

\* Before one pass of the loop of lines 249-309: the stay and the answer.
InitParse ==
    /\ PageLoaded
    /\ arg \in 0..MaxStay
    /\ resp \in {[NoResp EXCEPT !.offers = <<r>>] : r \in PricedAnswers}
    /\ clock = 0
    /\ ticks = 0
    /\ access_token = NoToken
    /\ token_expiry = NoExpiry
    /\ stated_expiry = NoExpiry
    /\ issued = 0
    /\ op = "none"
    /\ pc = "idle"
    /\ token = NoToken
    /\ hotel_ids = <<1>>
    /\ hotel_options = <<>>
    /\ acq = NoAcq
    /\ calls = <<>>
    /\ result = NoResult
    /\ raised = FALSE

\* Lines 261-309 on the answer: hotel_options afterwards, and whether the
\* exception left the loop.
ParseHotel ==
    /\ UNCHANGED ui
    /\ op = "none"
    /\ op' = "parse"
    /\ LET st == HotelStep(hotel_options, hotel_ids[1], resp.offers[1], arg) IN
        /\ hotel_options' = st.offers
        /\ raised' = (st.exc # "none")
    /\ UNCHANGED <<clock, ticks, cache, pc, arg, token, hotel_ids, acq, calls,
                   resp, result>>

NextParse == ParseHotel

SpecParse == InitParse /\ [][NextParse]_vars

\* ------------------------------------------ the generators on their own

\* Draws of the generators: the ends of every range, and a middle hour.
FlightDrawsWide ==
    [airline : {"United"}, dep : {6, 14, 22}, dur : {2, 8}, stops : 0..2,
     p : {300, 800}]
HotelDrawsWide ==
    [name : {"Plaza"}, r : {30, 50}, p : {80, 300}, am : AmenitiesOptions]

\* Before a call of a generator: no token cached, or token 1 cached at
\* time 0 with expires_in 90; `arg` travelers or nights.
InitMock ==
    /\ PageLoaded
    /\ arg \in 0..MaxStay
    /\ \E c \in {<<NoToken, NoExpiry, NoExpiry, 0>>, <<1, 90 - Margin, 90, 1>>} :
        /\ access_token = c[1]
        /\ token_expiry = c[2]
        /\ stated_expiry = c[3]
        /\ issued = c[4]
    /\ clock = 0
    /\ ticks = 0
    /\ op = "none"
    /\ pc = "idle"
    /\ token = NoToken
    /\ hotel_ids = <<>>
    /\ hotel_options = <<>>
    /\ acq = NoAcq
    /\ calls = <<>>
    /\ resp = NoResp
    /\ result = NoResult
    /\ raised = FALSE

\* _get_mock_flight_options for `arg` travelers, one or more.
MockFlights ==
    /\ UNCHANGED ui
    /\ op = "none"
    /\ arg >= 1
    /\ op' = "mock_flights"
    /\ \E ds \in DrawLists(FlightDrawsWide) :
        result' = [kind |-> "mock", offers |-> GetMockFlightOptions(ds, arg)]
    /\ UNCHANGED <<clock, ticks, cache, pc, arg, token, hotel_ids,
                   hotel_options, acq, calls, resp, raised>>

\* _get_mock_hotel_options for a stay of `arg` nights.
MockHotels ==
    /\ UNCHANGED ui
    /\ op = "none"
    /\ op' = "mock_hotels"
    /\ \E ds \in DrawLists(HotelDrawsWide) :
        result' = [kind |-> "mock", offers |-> GetMockHotelOptions(ds, arg)]
    /\ UNCHANGED <<clock, ticks, cache, pc, arg, token, hotel_ids,
                   hotel_options, acq, calls, resp, raised>>

NextMock ==
    \/ MockFlights
    \/ MockHotels

SpecMock == InitMock /\ [][NextMock]_vars

\* ------------------------------------------------- the front end, main.py

\* What the widgets can hold.
Destinations == {"", "Paris"}
Days == Today..MaxDay
Forms == [destination : Destinations, departure_date : Days, return_date : Days]

\* A test of the dates that lets a same-day return through.
DatesRejectedOnlyIfEarlier(dep, ret) == dep > ret
\* `if departure_date >= return_date`, line 85
DatesRejected(dep, ret) == dep >= ret

\* Lines 80-86: whether the click on "Plan My Trip" is turned down.
ClickRejected(f) ==
    IF f.destination = "" THEN TRUE
    ELSE DatesRejected(f.departure_date, f.return_date)

\* Lines 87-92: the query of the form f stored in the session s.
Stored(s, f) ==
    [s EXCEPT !.planning_started = TRUE,
              !.destination = f.destination,
              !.departure_date = f.departure_date,
              !.return_date = f.return_date]

\* Lines 101-209 for the session s: the welcome page, the planning block,
\* or the results.
RunFrom(s) ==
    IF ~s.planning_started THEN "done"
    ELSE IF ~s.itinerary THEN "agents"
    ELSE "done"

\* The user changes a widget; the script runs again without a click.
EditForm ==
    /\ run = "done"
    /\ \E f \in Forms \ {form} : form' = f
    /\ event' = "edit"
    /\ run' = RunFrom(session)
    /\ UNCHANGED <<session, invoked>>
    /\ UNCHANGED agent

\* The user clicks "Plan My Trip", lines 80-92, and the script goes on.
PlanClick ==
    /\ run = "done"
    /\ event' = "click"
    /\ IF ClickRejected(form)
       THEN /\ run' = "done"
            /\ UNCHANGED session
       ELSE /\ session' = Stored(session, form)
            /\ run' = RunFrom(session')
    /\ UNCHANGED <<form, invoked>>
    /\ UNCHANGED agent

\* The script runs again for another reason: a chat message, a reload of
\* the widgets.
Rerun ==
    /\ run = "done"
    /\ event' = "rerun"
    /\ run' = RunFrom(session)
    /\ UNCHANGED <<form, session, invoked>>
    /\ UNCHANGED agent

\* The planning block fails: `except Exception`, lines 174-177.
PlanningFailed ==
    /\ run' = "done"
    /\ session' = [session EXCEPT !.planning_started = FALSE]

\* Lines 139-142: the agents are built; CerebrasClient raises without its
\* API key.
PlanAgents ==
    /\ run = "agents"
    /\ \E ok \in BOOLEAN :
        IF ok THEN run' = "itinerary" /\ UNCHANGED session
        ELSE PlanningFailed
    /\ UNCHANGED <<form, event, invoked>>
    /\ UNCHANGED agent

\* Line 154: generate_itinerary returns a text, the model's or the apology
\* of CerebrasClient.generate_response.
PlanItinerary ==
    /\ run = "itinerary"
    /\ run' = "flights"
    /\ session' = [session EXCEPT !.itinerary = TRUE]
    /\ UNCHANGED <<form, event, invoked>>
    /\ UNCHANGED agent

\* One call of the finder with the stored dates.
Invocation(fn) ==
    [fn |-> fn, departure_date |-> session.departure_date,
     return_date |-> session.return_date]

\* A handler of get_weather_info for the errors of the requests library only.
WeatherCatchRequestsOnly(e) == e \in {"ConnectionError", "HTTPError"}
\* `except Exception` of get_weather_info, weather_agent.py line 80
WeatherCatch(e) == e \in ExceptionClasses

\* What can go wrong inside a call of the planning block: nothing, or an
\* exception of one of the classes.
Mishaps == {"none"} \cup ExceptionClasses

\* Whether the exception e, raised somewhere inside the operation, leaves
\* get_flight_options, get_hotel_options, get_weather_info: it does when a
\* handler on its way does not catch it.
FlightsEscape(e) ==
    e # "none" /\ ~(TokenCatch(e) /\ IataCatch(e) /\ FlightCatch(e))
HotelsEscape(e) ==
    e # "none" /\ ~(TokenCatch(e) /\ IataCatch(e) /\ HotelCatch(e))
WeatherEscape(e) == e # "none" /\ ~WeatherCatch(e)

\* Lines 157-162: the call with the stored dates; its list is stored unless
\* an exception leaves it.
PlanFlights ==
    /\ run = "flights"
    /\ invoked' = Append(invoked, Invocation("get_flight_options"))
    /\ \E e \in Mishaps :
        IF FlightsEscape(e) THEN PlanningFailed
        ELSE /\ run' = "hotels"
             /\ session' = [session EXCEPT !.flight_options = TRUE]
    /\ UNCHANGED <<form, event>>
    /\ UNCHANGED agent

\* Lines 164-169
PlanHotels ==
    /\ run = "hotels"
    /\ invoked' = Append(invoked, Invocation("get_hotel_options"))
    /\ \E e \in Mishaps :
        IF HotelsEscape(e) THEN PlanningFailed
        ELSE /\ run' = "weather"
             /\ session' = [session EXCEPT !.hotel_options = TRUE]
    /\ UNCHANGED <<form, event>>
    /\ UNCHANGED agent

\* Line 172: get_weather_info returns the weather or, after any exception,
\* its placeholder; both have "current" and "forecast".
PlanWeather ==
    /\ run = "weather"
    /\ \E e \in Mishaps :
        IF WeatherEscape(e) THEN PlanningFailed
        ELSE /\ run' = "done"
             /\ session' = [session EXCEPT !.weather_info = TRUE]
    /\ UNCHANGED <<form, event, invoked>>
    /\ UNCHANGED agent

NextSession ==
    \/ EditForm
    \/ PlanClick
    \/ Rerun
    \/ PlanAgents
    \/ PlanItinerary
    \/ PlanFlights
    \/ PlanHotels
    \/ PlanWeather

SpecSession == Init /\ [][NextSession]_vars

\* ------------------------------------------------------------ properties

\* The token exchanges among the requests cs.
TokenCalls(cs) == SelectSeq(cs, LAMBDA c : c.req = "token")
\* The requests among cs that are no token exchange.
OtherCalls(cs) == SelectSeq(cs, LAMBDA c : c.req # "token")

\* The token exchanges the step added to the operation's requests.
NewTokenCalls ==
    IF pc = "idle" THEN Len(TokenCalls(calls'))
    ELSE Len(TokenCalls(calls')) - Len(TokenCalls(calls))

\* C1. Token reuse: a call of _get_amadeus_token made while a token is cached
\* and the clock is more than 60 seconds before that token's server-stated
\* expiry returns the cached token, issues no token exchange and leaves the
\* cached token and its expiry as they were.
TokenReuse ==
    [][(/\ acq'.called
        /\ access_token # NoToken
        /\ stated_expiry # NoExpiry
        /\ clock + Margin < stated_expiry)
       => (/\ acq'.ret = access_token
           /\ acq'.exch = 0
           /\ NewTokenCalls = 0
           /\ access_token' = access_token
           /\ token_expiry' = token_expiry)]_vars

\* A second operation was served from the cache, more than 60 seconds before
\* the token's expiry.
TokenReuseWitness ==
    /\ acq.called
    /\ acq.x = "hit"
    /\ acq.ret = access_token
    /\ calls = <<>>
    /\ clock + Margin < stated_expiry

\* C2. Token refresh: a call of _get_amadeus_token made with no cached token,
\* or with a cached token at or past 60 seconds before its server-stated
\* expiry, issues exactly one token exchange, and when that exchange succeeds
\* the cache holds the token it returned, newly issued, with the expiry
\* now + expires_in - 60.
TokenRefresh ==
    [][(/\ acq'.called
        /\ \/ access_token = NoToken
           \/ stated_expiry # NoExpiry /\ clock + Margin >= stated_expiry)
       => (/\ acq'.exch = 1
           /\ NewTokenCalls = 1
           /\ acq'.x = "ok" =>
                /\ acq'.ret > issued
                /\ acq'.ret # access_token
                /\ access_token' = acq'.ret
                /\ token_expiry' = clock + acq'.ttl - Margin
                /\ stated_expiry' = clock + acq'.ttl)]_vars

\* A stale cached token was replaced by a second one.
TokenRefreshWitness ==
    /\ acq.called
    /\ acq.x = "ok"
    /\ acq.ret = 2
    /\ access_token = 2
    /\ token_expiry = clock + acq.ttl - Margin
    /\ clock > 0

\* C3. AccessToken invariant: _get_amadeus_token never returns a token, fresh
\* or cached, less than 60 seconds before the expiry the server stated for it.
NeverHandedOutNearExpiry ==
    (acq.called /\ acq.ret # NoToken)
        => (stated_expiry # NoExpiry /\ stated_expiry - clock >= Margin)

\* C4. Acquire failure: when the token exchange fails (transport error,
\* non-2xx answer, a body that is no JSON or lacks access_token or
\* expires_in), _get_amadeus_token returns None and nothing is raised, from
\* it or from the operation that called it.
AcquireFailure ==
    (acq.called /\ acq.exch = 1 /\ acq.x # "ok")
        => (acq.ret = NoToken /\ ~acq.raised /\ ~raised)

\* Every kind of failed exchange is met; here the body lacked expires_in.
AcquireFailureWitness ==
    /\ acq.called
    /\ acq.x = "bad_ttl"
    /\ acq.ret = NoToken
    /\ pc = "idle"
    /\ result.kind = "mock"

\* The offers are the n of a mock generator.
IsMock(res, n) ==
    /\ res.kind = "mock"
    /\ Len(res.offers) = n
    /\ \A i \in 1..Len(res.offers) : res.offers[i].src = "mock"

\* C5. Flight degradation: when the acquisition that opens get_flight_options
\* returns no token, the call returns at once with exactly 3 synthetic offers
\* and has issued no request besides that acquisition's one failed exchange.
FlightDegradation ==
    [][(pc = "idle" /\ op' = "flights" /\ acq'.called /\ acq'.ret = NoToken)
       => (/\ pc' = "idle"
           /\ ~raised'
           /\ IsMock(result', 3)
           /\ OtherCalls(calls') = <<>>
           /\ Len(TokenCalls(calls')) = acq'.exch
           /\ Len(calls') <= 1)]_vars

\* get_flight_options returned synthetic offers on a Resolver that never held
\* a token: its opening acquisition failed.
FlightDegradationWitness ==
    /\ op = "flights"
    /\ pc = "idle"
    /\ acq.called
    /\ acq.ret = NoToken
    /\ access_token = NoToken
    /\ IsMock(result, 3)
    /\ Len(calls) = 1

\* C6. End-to-end auth outage: in the reference flow, when no token exchange
\* has succeeded by the time get_hotel_options is called after
\* get_flight_options, the flight call has returned exactly 3 synthetic flight
\* offers and the hotel call returns exactly 3 synthetic hotel offers, and
\* each call issued one request only: its failed token exchange.
AuthOutage ==
    [][(pc = "idle" /\ op = "flights" /\ op' = "hotels"
        /\ token_expiry' = NoExpiry)
       => (/\ pc' = "idle"
           /\ ~raised /\ ~raised'
           /\ IsMock(result, 3) /\ IsMock(result', 3)
           /\ \A i \in 1..3 : result.offers[i].price \in
                    {p * arg : p \in 300..800}
           /\ \A i \in 1..3 : result'.offers[i].price \in 80..300
           /\ Len(calls) = 1 /\ Len(calls') = 1
           /\ OtherCalls(calls) = <<>> /\ OtherCalls(calls') = <<>>)]_vars

\* Both calls of the reference flow have returned, and no exchange succeeded.
AuthOutageWitness ==
    /\ op = "hotels"
    /\ pc = "idle"
    /\ token_expiry = NoExpiry
    /\ IsMock(result, 3)
    /\ Len(calls) = 1
    /\ result.offers[1].total_price = result.offers[1].price * arg

\* The first FlightCap raw offers of the last flight-offers answer, and those
\* among them that parse.
FirstRaw == FirstN(resp.data, FlightCap)
ParseableRaw == SelectSeq(FirstRaw, LAMBDA o : FlightParseRaises(o) = "none")
UnparseableRaw == SelectSeq(FirstRaw, LAMBDA o : FlightParseRaises(o) # "none")

\* get_flight_options has returned after a flight-offers answer with a list.
FlightsSearched == op = "flights" /\ pc = "idle" /\ resp.body = "list"

\* C7. Flight cap and order: after a flight-offers answer, get_flight_options
\* returns at most 3 offers, and when any of the first 3 raw offers parses,
\* exactly the parses of the parseable ones among them, in upstream order.
FlightCapAndOrder ==
    FlightsSearched =>
        /\ Len(result.offers) <= 3
        /\ ParseableRaw # <<>> =>
             result.offers =
                [i \in 1..Len(ParseableRaw) |-> ParseFlightOffer(ParseableRaw[i])]

\* C8. Partial-parse resilience: when exactly one of the first 3 raw offers
\* fails to parse, for whatever reason, and another parses, the result is
\* upstream-derived (no fallback) and has one offer per parseable raw offer.
PartialParseResilience ==
    (FlightsSearched /\ Len(UnparseableRaw) = 1 /\ ParseableRaw # <<>>)
        => /\ result.kind = "api"
           /\ Len(result.offers) = Len(FirstRaw) - 1
           /\ \A i \in 1..Len(result.offers) : result.offers[i].src = "api"

\* C9. Always-populated result: whatever the upstream answers, an operation
\* never raises, its hotel loop runs at most once per identifier, of which
\* there are at most 3, and what it returns has between 1 and 3 offers.
AlwaysPopulated ==
    /\ ~raised
    /\ pc = "h_offer" =>
         Len(resp.offers) < Len(hotel_ids) /\ Len(hotel_ids) <= HotelCap
    /\ (pc = "idle" /\ op # "none") =>
         /\ result.kind \in {"mock", "api"}
         /\ Len(result.offers) \in 1..3

\* get_hotel_options got three identifiers, lost every one of them to a
\* different failure, and returned three synthetic offers.
AlwaysPopulatedWitness ==
    /\ op = "hotels"
    /\ pc = "idle"
    /\ Len(resp.offers) = 3
    /\ resp.offers[1].k = "transport"
    /\ resp.offers[2].k = "empty"
    /\ resp.offers[3].k = "no_price"
    /\ IsMock(result, 3)
    /\ ~raised

\* The hotel-offers requests among the operation's requests.
OfferCalls == SelectSeq(calls, LAMBDA c : c.req = "offers")

\* The answer r for one identifier yields no offer: an empty offer list, a
\* request error or a parse exception.
Skipped(r) == r.k = "empty" \/ HotelOfferRaises(r, arg) # "none"

\* The positions in the listing whose answers yield an offer, in order.
Surviving ==
    SelectSeq([i \in 1..Len(resp.offers) |-> i],
              LAMBDA i : ~Skipped(resp.offers[i]))

\* C10. Hotel batch resilience: the at most 3 identifiers of a listing are
\* requested one at a time in listing order; whatever the earlier answers
\* were, every identifier has been requested when get_hotel_options returns;
\* and it returns the offers of the identifiers that survived, in identifier
\* order, or the synthetic offers when none survived.
HotelBatchResilience ==
    (op = "hotels" /\ resp.body = "list") =>
        /\ Len(resp.data) \in 1..3
        /\ Len(OfferCalls) = Len(resp.offers)
        /\ Len(OfferCalls) <= Len(resp.data)
        /\ \A i \in 1..Len(OfferCalls) : OfferCalls[i].id = resp.data[i]
        /\ pc = "idle" =>
             /\ Len(OfferCalls) = Len(resp.data)
             /\ IF Surviving = <<>> THEN IsMock(result, 3)
                ELSE /\ result.kind = "api"
                     /\ result.offers =
                          [j \in 1..Len(Surviving) |->
                             ParseHotelOffer(resp.data[Surviving[j]],
                                             resp.offers[Surviving[j]], arg)]

\* The first identifier met a request error, the second a parse exception,
\* and the third was still requested and is the one offer returned.
HotelBatchResilienceWitness ==
    /\ op = "hotels"
    /\ pc = "idle"
    /\ Len(resp.offers) = 3
    /\ resp.offers[1].k = "transport"
    /\ resp.offers[2].k = "no_price"
    /\ resp.offers[3].k = "ok"
    /\ result.kind = "api"
    /\ Len(result.offers) = 1
    /\ result.offers[1].id = 3
\* The distance between two integers.
Dist(a, b) == IF a < b THEN b - a ELSE a - b

\* The offer ParseHotel appended, and the answer it came from.
Parsed == op = "parse" /\ hotel_options # <<>>
ParsedOffer == hotel_options[1]
ParsedFrom == resp.offers[1]

\* C11: for a stay of one night or more, the price per night of an
\* upstream-derived hotel offer is the integer nearest to the upstream total
\* divided by the nights, its total stay price is the integer nearest to the
\* upstream total, and when the nights divide the total the price per night
\* times the nights is the total stay price.
HotelPerNightPrice ==
    (Parsed /\ arg >= 1) =>
        /\ 2 * Dist(ParsedOffer.price * arg * 100, ParsedFrom.cents) <= 100 * arg
        /\ 2 * Dist(ParsedOffer.total_price * 100, ParsedFrom.cents) <= 100
        /\ (ParsedFrom.cents % (100 * arg) = 0
                => ParsedOffer.price * arg = ParsedOffer.total_price)

\* A total of 300 over three nights was parsed to 100 a night.
HotelPerNightPriceWitness ==
    /\ Parsed
    /\ arg = 3
    /\ ParsedFrom.cents = 30000
    /\ ParsedOffer.price = 100
    /\ ParsedOffer.total_price = 300

\* The rating, in tenths, the specification states for the category c.
StatedCategoryRating(c) ==
    IF c = "ECONOMY" THEN 20
    ELSE IF c = "STANDARD" THEN 30
    ELSE IF c = "SUPERIOR" THEN 40
    ELSE IF c = "DELUXE" THEN 50
    ELSE 30

\* The rating of the offer when the raw rating is no number.
NonNumericRating ==
    /\ (ParsedFrom.rating.kind = "cat"
            => ParsedOffer.rating = StatedCategoryRating(ParsedFrom.rating.c))
    /\ (ParsedFrom.rating.kind = "absent" => ParsedOffer.rating = 30)

\* C12 as stated: the rating of an upstream-derived hotel offer is the raw
\* number itself when the raw rating is a number, 2.0, 3.0, 4.0, 5.0 for
\* ECONOMY, STANDARD, SUPERIOR, DELUXE, and 3.0 for any other category or
\* an absent rating.
RatingIsRawValue ==
    Parsed =>
        /\ NonNumericRating
        /\ (ParsedFrom.rating.kind = "num"
                => ParsedOffer.rating * 10 = ParsedFrom.rating.v)

\* C12: the rating of an upstream-derived hotel offer is the raw number
\* rounded to one decimal when the raw rating is a number, 2.0, 3.0, 4.0,
\* 5.0 for ECONOMY, STANDARD, SUPERIOR, DELUXE, and 3.0 for any other
\* category or an absent rating.
RatingMapping ==
    Parsed =>
        /\ NonNumericRating
        /\ (ParsedFrom.rating.kind = "num"
                => 2 * Dist(ParsedOffer.rating * 10, ParsedFrom.rating.v) <= 10)

\* The raw rating 4.56 was parsed to 4.6.
RatingMappingWitness ==
    /\ Parsed
    /\ ParsedFrom.rating = NumRating(456)
    /\ ParsedOffer.rating = 46

\* The hotel offers at hand: those the loop has collected, and those the
\* operation returned.
HotelOffersAtHand ==
    {hotel_options[i] : i \in 1..Len(hotel_options)}
        \cup (IF op = "hotels" THEN {result.offers[i] : i \in 1..Len(result.offers)}
              ELSE {})

\* C13: every hotel offer, upstream-derived or synthetic, has a rating of
\* 0.0 to 5.0 and at most five amenity labels, whatever rating the upstream
\* supplies.
HotelOfferRange ==
    \A o \in HotelOffersAtHand :
        /\ o.rating \in 0..50
        /\ Len(o.amenities) <= 5

\* The city searches among the requests cs.
CityCalls(cs) == SelectSeq(cs, LAMBDA c : c.req = "city")

\* The step is a call of _get_iata_code and the caller's test of its value,
\* and no passing of time.
ResolverStep == pc \in {"f_iata", "h_iata"} /\ ticks' = ticks

\* The operation went on with a destination code.
WentOnWithCode == pc' \in {"f_search", "h_list"}

\* C14: _get_iata_code never raises; without a token it returns None and
\* sends no city search; with a token it sends one city search, carrying
\* that token, and returns the code of the first result, or None when the
\* result set is empty or the request fails.
LocationResolver ==
    [][ResolverStep =>
        /\ ~raised'
        /\ acq'.called
        /\ (acq'.ret = NoToken =>
                /\ CityCalls(calls') = CityCalls(calls)
                /\ resp'.city = "none"
                /\ ~WentOnWithCode
                /\ result'.kind = "mock")
        /\ (acq'.ret # NoToken =>
                /\ CityCalls(calls') =
                       Append(CityCalls(calls),
                              [req |-> "city", tok |-> acq'.ret, id |-> 0])
                /\ calls'[Len(calls')].req = "city"
                /\ (resp'.city = "ok" <=> WentOnWithCode)
                /\ (resp'.city # "ok" => result'.kind = "mock"))
    ]_vars

\* The resolver had a token and the city search found nothing: the caller
\* fell back after exactly one city search.
LocationResolverWitness ==
    /\ op = "flights"
    /\ pc = "idle"
    /\ resp.city = "empty"
    /\ Len(CityCalls(calls)) = 1
    /\ result.kind = "mock"

\* The offers of the returned sequence.
Returned == {result.offers[i] : i \in 1..Len(result.offers)}

\* What a generator returned: three flight offers within the stated ranges,
\* or three hotel offers within theirs.
GeneratedInRange ==
    /\ ~raised
    /\ (op = "mock_flights" =>
            /\ Len(result.offers) = 3
            /\ \A o \in Returned :
                /\ o.stops \in 0..2
                /\ o.departure_time \in 6..22
                /\ o.duration \in 2..8
                /\ o.arrival_time = (o.departure_time + o.duration) % 24
                /\ \E p \in 300..800 : o.price = p * arg)
    /\ (op = "mock_hotels" =>
            /\ Len(result.offers) = 3
            /\ \A o \in Returned :
                /\ o.price \in 80..300
                /\ o.total_price = o.price * arg)

\* C15: the generators never fail, send no request and leave the cached
\* token alone; the flight generator returns three offers with 0..2 stops,
\* a departure hour of 6..22, a duration of 2..8 hours, the arrival hour
\* (departure + duration) mod 24 and the price p * travelers for a p of
\* 300..800; the hotel generator returns three offers with a nightly price
\* of 80..300 and the total nightly price * nights.
SyntheticGenerator ==
    /\ []GeneratedInRange
    /\ [][UNCHANGED <<access_token, token_expiry, calls>>]_vars

\* With a token cached, the flight generator returned for two travelers an
\* offer that departs at 22 and arrives at 6 the next day.
SyntheticGeneratorWitness ==
    /\ op = "mock_flights"
    /\ access_token = 1
    /\ arg = 2
    /\ \E o \in Returned :
        /\ o.departure_time = 22
        /\ o.arrival_time = 6
        /\ o.price = 1600

\* The finder was only called with a return after the departure.
InvokedInOrder ==
    \A i \in 1..Len(invoked) :
        invoked[i].return_date > invoked[i].departure_date

\* A click with a return on or before the departure starts no planning and
\* leaves the stored query, and the rest of the session, as they were.
BadClickIgnored ==
    (event' = "click" /\ run = "done"
        /\ form.return_date <= form.departure_date)
    => (session' = session /\ run' = "done" /\ invoked' = invoked)

\* C16: in the front end, across form edits, clicks on Plan and reruns,
\* get_flight_options and get_hotel_options are only called with a return
\* date after the departure date, and a click on Plan with a return date on
\* or before the departure date starts no planning and leaves the stored
\* query as it was.
CallerEnforcedDateOrder ==
    /\ []InvokedInOrder
    /\ [][BadClickIgnored]_vars

\* After a trip was planned, the user set the return to the departure day
\* and clicked Plan: the stored query is still the planned one.
CallerEnforcedDateOrderWitness ==
    /\ event = "click"
    /\ form.destination = "Paris"
    /\ form.return_date = form.departure_date
    /\ Len(invoked) = 2
    /\ session.planning_started
    /\ session.return_date > session.departure_date

\* The requests of kind k among cs.
CallsOf(k, cs) == SelectSeq(cs, LAMBDA c : c.req = k)

\* A request of kind k stands before position i of the operation's requests.
Earlier(k, i) == \E j \in 1..(i - 1) : calls[j].req = k

\* C17: within one operation, a city search is sent only with an acquired
\* token; a flight-offers search or a hotels-by-city listing only with a
\* token and after a city search that returned a code; hotel-offers requests
\* only after a listing that returned hotels, one identifier at a time in
\* listing order, each answered before the next, and at most three in all;
\* and at most one flight-offers search.
RequestOrdering ==
    /\ \A i \in 1..Len(calls) :
        /\ (calls[i].req = "city" => calls[i].tok # NoToken)
        /\ (calls[i].req \in {"flights", "hotels"} =>
                /\ calls[i].tok # NoToken
                /\ Earlier("city", i)
                /\ resp.city = "ok")
        /\ (calls[i].req = "offers" =>
                /\ Earlier("hotels", i)
                /\ resp.body = "list"
                /\ resp.data # <<>>)
    /\ LET asked == CallsOf("offers", calls) IN
        /\ Len(asked) <= 3
        /\ Len(asked) <= Len(resp.data)
        /\ Len(asked) = Len(resp.offers)
        /\ \A k \in 1..Len(asked) : asked[k].id = resp.data[k]
    /\ Len(CallsOf("flights", calls)) <= 1
    /\ Len(CallsOf("hotels", calls)) <= 1

\* A listing of four hotels was followed by three hotel-offers requests.
RequestOrderingWitness ==
    /\ op = "hotels"
    /\ pc = "idle"
    /\ resp.body = "list"
    /\ Len(CallsOf("offers", calls)) = 3
    /\ calls[Len(calls)].id = 3
    /\ result.kind = "api"

\* Every offer of the returned sequence comes from the source src.
AllFrom(src) == \A o \in Returned : o.src = src

\* get_hotel_options has returned after a listing that was empty or whose
\* identifiers were all requested.
HotelsListed ==
    op = "hotels" /\ pc = "idle" /\ resp.body \in {"empty", "list"}

\* C18: get_flight_options returns the three synthetic offers when none of
\* the first three raw offers parses, whatever follows them, and only
\* upstream-derived offers otherwise; get_hotel_options returns the
\* synthetic offers when the listing is empty or no identifier yields an
\* offer, and only upstream-derived offers otherwise; no returned sequence
\* mixes the two.
TotalParseFallback ==
    /\ (FlightsSearched =>
            IF ParseableRaw = <<>> THEN IsMock(result, 3)
            ELSE result.kind = "api" /\ AllFrom("api"))
    /\ (HotelsListed =>
            IF Surviving = <<>> THEN IsMock(result, 3)
            ELSE result.kind = "api" /\ AllFrom("api"))
    /\ (pc = "idle" /\ ~raised => (AllFrom("api") \/ AllFrom("mock")))

\* get_hotel_options has returned for a stay of no night after a listing
\* whose every answer carried a hotel and a priced offer.
ZeroNightsPriced ==
    /\ op = "hotels"
    /\ pc = "idle"
    /\ arg = 0
    /\ resp.body = "list"
    /\ \A i \in 1..Len(resp.offers) : resp.offers[i].k = "ok"

\* C19: for a stay of no night whose answers are otherwise parseable, the
\* price per night divides by zero for every hotel; the failure stays with
\* that hotel, every identifier is still requested, get_hotel_options does
\* not raise and returns the three synthetic offers, each with a total stay
\* price of 0.
ZeroNightStay ==
    ZeroNightsPriced =>
        /\ \A i \in 1..Len(resp.offers) :
            HotelOfferRaises(resp.offers[i], arg) = "ZeroDivisionError"
        /\ Len(resp.offers) = Len(resp.data)
        /\ ~raised
        /\ IsMock(result, 3)
        /\ \A o \in Returned : o.total_price = 0

\* Three priced hotels for a stay of no night: all three were requested and
\* skipped, and the synthetic offers came back.
ZeroNightStayWitness ==
    /\ ZeroNightsPriced
    /\ Len(resp.offers) = 3
    /\ result.kind = "mock"
    /\ result.offers[1].price > 0
    /\ result.offers[1].total_price = 0

\* C20: whenever _get_amadeus_token returns None, after a transport error,
\* a non-2xx answer, or a body without access_token or without expires_in,
\* the cached token and the cached expiry are what they were before the
\* call.
FailedRefreshLeavesCache ==
    [][(acq'.called /\ acq'.ret = NoToken)
        => (access_token' = access_token /\ token_expiry' = token_expiry)]_vars

\* The requests that carry the operation's local `token` as their bearer.
BearerRequests == {"flights", "hotels", "offers"}

\* C21: every flight-offers search, hotels-by-city listing and hotel-offers
\* request carries the token the cache holds when the request is sent, also
\* when the acquisition inside _get_iata_code exchanged a new one.  (No step
\* changes the cache between such a request and the operation's next start,
\* which empties the request log.)
NoSupersededTokenSent ==
    \A i \in 1..Len(calls) :
        calls[i].req \in BearerRequests => calls[i].tok = access_token

\* No run of the script is under way: the page shows the welcome text, an
\* error, or the results of lines 180-209.
RunOver == run = "done"

\* The session keys the results tabs read are all there.
ResultsComplete ==
    /\ session.flight_options
    /\ session.hotel_options
    /\ session.weather_info

\* With an itinerary stored, a step starts no planning block and calls the
\* finder no more.
PlannedOnce ==
    (RunOver /\ session.itinerary) => (run' = "done" /\ invoked' = invoked)

====
